---------------------------- MODULE Spec2Model ----------------------------
(***************************************************************************)
(* State-machine model of openedx/core/djangoapps/oauth_dispatch/models.py *)
(* (RestrictedApplication, OauthRestrictedApplication,                     *)
(* OauthRestrictOrganization) together with the tables and objects the     *)
(* file reads and writes through the Django ORM.                           *)
(***************************************************************************)
EXTENDS Integers, Sequences, FiniteSets, TLC

(***************************************************************************)
(* Bounds of the model.                                                    *)
(***************************************************************************)
\* longest list of scope names handed to the allowed_scopes setter
MaxScopes == 2
\* the clock runs from 1 (an instant after the epoch) to MaxTime
MaxTime == 3
\* primary keys of RestrictedApplication rows are 1..MaxRowId (never reused)
MaxRowId == 3
\* at most MaxBindings rows of OauthRestrictOrganization are created
MaxBindings == 2
\* longest text, in characters, stored in allowed_scope by an administrator
MaxTextLen == 4

(***************************************************************************)
(* Strings are sequences of characters, so that join and split are         *)
(* computed character by character.                                        *)
(***************************************************************************)
\* models.py line 18
_DEFAULT_SEPARATOR == " "

\* the characters scope names and stored scope strings are made of
Chars == {"r", "w", _DEFAULT_SEPARATOR}

RECURSIVE SeqsUpTo(_, _)
\* all sequences over S of length at most n
SeqsUpTo(S, n) ==
    IF n = 0 THEN {<<>>}
    ELSE LET shorter == SeqsUpTo(S, n - 1)
         IN  shorter \cup {Append(q, x) : q \in shorter, x \in S}

\* the elements of a sequence
Range(q) == {q[i] : i \in 1..Len(q)}

\* a nullable text column: None, or a string
None == [null |-> TRUE, s |-> <<>>]
Str(chars) == [null |-> FALSE, s |-> chars]

\* Python truthiness of a nullable string: None and '' are false
Truthy(text) == ~text.null /\ text.s # <<>>

RECURSIVE str_join(_, _)
\* Python's  sep.join(list)
str_join(sep, list) ==
    IF list = <<>> THEN <<>>
    ELSE IF Len(list) = 1 THEN list[1]
    ELSE list[1] \o <<sep>> \o str_join(sep, Tail(list))

RECURSIVE str_split(_, _)
\* Python's  s.split(sep)  with an explicit separator: one piece per
\* occurrence of sep plus one, empty pieces kept
str_split(s, sep) ==
    IF \A i \in 1..Len(s) : s[i] # sep THEN <<s>>
    ELSE LET i == CHOOSE j \in 1..Len(s) :
                     s[j] = sep /\ \A k \in 1..(j - 1) : s[k] # sep
         IN  <<SubSeq(s, 1, i - 1)>> \o str_split(SubSeq(s, i + 1, Len(s)), sep)

\* RestrictedApplication._get_delemitered_string_from_list (the seperator
\* argument is ignored by the code)
_get_delemitered_string_from_list(scopes_list) ==
    str_join(_DEFAULT_SEPARATOR, scopes_list)

\* a decoder that splits without the emptiness test
split_always(delimited_string) ==
    str_split(delimited_string.s, _DEFAULT_SEPARATOR)

\* RestrictedApplication._get_list_from_delimited_string and
\* OauthRestrictedApplication._get_list_from_delimited_string
_get_list_from_delimited_string(delimited_string) ==
    IF Truthy(delimited_string)
    THEN str_split(delimited_string.s, _DEFAULT_SEPARATOR)
    ELSE <<>>


(***************************************************************************)
(* Universes.                                                              *)
(***************************************************************************)
\* identities of the OAuth2 applications (oauth2_settings.APPLICATION_MODEL)
Apps == {1, 2}
\* token strings for which the issuance path may mint an AccessToken
TokenIds == {"tk1", "tk2"}
\* a token string no AccessToken ever carries
UnknownToken == "tk0"
\* identities of the rows of the Organization table
OrgIds == {1, 2}
\* 1970-01-01T00:00:00 UTC, models.py lines 146, 154 and 208; instants are
\* counted in clock steps from it
Epoch == 0
\* nominal lifetime given to a freshly minted token by the issuance path
TokenLifetime == 1

\* Organization.name of the row with the given id; names are strings and
\* ids are numbers, so the conversion is not the identity
OrgName(org_id) == IF org_id = 1 THEN "Acme" ELSE "Umbrella"

VARIABLES
    restricted_applications,  \* table RestrictedApplication: set of rows
    next_row_id,              \* next primary key of that table
    oauth_applications,       \* table OauthRestrictedApplication: set of rows
    restrict_organizations,   \* table OauthRestrictOrganization: set of rows
    all_scopes,               \* get_scopes_backend().get_all_scopes().keys()
    access_tokens,            \* table AccessToken, by token string
    instances,                \* AccessToken objects held by the issuance path
    now,                      \* the clock
    forced,                   \* history: tokens handed to set_access_token_as_expired
    for_restricted,           \* history: tokens minted for a restricted application
    ret                       \* outcome of the last operation

vars == <<restricted_applications, next_row_id, oauth_applications,
          restrict_organizations, all_scopes, access_tokens, instances, now,
          forced, for_restricted, ret>>

\* everything the engine reads: the tables, the registry and the tokens
store == <<restricted_applications, next_row_id, oauth_applications,
           restrict_organizations, all_scopes, access_tokens, instances>>

(***************************************************************************)
(* Python values returned to the caller.                                   *)
(***************************************************************************)
PyNone == [t |-> "None", v |-> 0]
PyBool(b) == [t |-> "bool", v |-> b]
PyRow(row) == [t |-> "row", v |-> row]
PyQuerySet(rows) == [t |-> "QuerySet", v |-> rows]
PyList(list) == [t |-> "list", v |-> list]
PySet(S) == [t |-> "set", v |-> S]
PyStr(x) == [t |-> "str", v |-> x]
PyTime(x) == [t |-> "datetime", v |-> x]

\* Python's  x is not None
is_not_None(x) == x.t # "None"

\* an outcome is a record: the value returned, or the exception raised
Outcome(value) == [kind |-> "return", val |-> value]
Raised(exception) == [kind |-> exception, val |-> PyNone]
Result(op, arg, outcome) ==
    [op |-> op, arg |-> arg, kind |-> outcome.kind, val |-> outcome.val]

(***************************************************************************)
(* Token arguments: the lookups take a token string or a token object      *)
(* (isinstance(token, basestring), lines 58 and 79 and 177).               *)
(***************************************************************************)
ByValue(token) == [basestring |-> TRUE, token |-> token]
ByReference(token) == [basestring |-> FALSE, token |-> token]

\* AccessToken.objects.filter(token=token): the rows carrying the string
AccessToken_filter(tokens, token) ==
    IF token \in DOMAIN tokens /\ tokens[token].saved
    THEN {tokens[token]} ELSE {}

(***************************************************************************)
(* RestrictedApplication, lines 20-154.                                    *)
(***************************************************************************)
\* QuerySet.first() on AccessToken rows: at most one row carries a token
\* string (the column is unique), None when there is none
first_token(rows) ==
    IF rows = {} THEN PyNone ELSE PyRow(CHOOSE r \in rows : TRUE)

\* QuerySet.first(): the row with the least primary key, None when empty
first(rows) ==
    IF rows = {} THEN PyNone
    ELSE PyRow(CHOOSE r \in rows : \A q \in rows : r.id <= q.id)

\* RestrictedApplication.get_restricted_application, lines 66-71
RestrictedApplication_get_restricted_application(table, application) ==
    first({r \in table : r.application = application})

\* RestrictedApplication.is_token_a_restricted_application, lines 52-64
is_token_a_restricted_application(table, tokens, objects, token) ==
    IF token.basestring /\ AccessToken_filter(tokens, token.token) = {}
    THEN Raised("DoesNotExist")
    ELSE LET token_obj == IF token.basestring
                          THEN tokens[token.token] ELSE objects[token.token]
         IN  Outcome(PyBool(is_not_None(
                 RestrictedApplication_get_restricted_application(
                     table, token_obj.application))))

\* RestrictedApplication.get_restricted_application_from_token, lines 73-87
get_restricted_application_from_token(table, tokens, objects, token) ==
    IF token.basestring
    THEN LET access_token == first_token(AccessToken_filter(tokens, token.token))
         IN  IF is_not_None(access_token)
             THEN Outcome(RestrictedApplication_get_restricted_application(
                              table, access_token.v.application))
             ELSE Raised("AttributeError")
    ELSE Outcome(RestrictedApplication_get_restricted_application(
                     table, objects[token.token].application))

\* a forced expiry that stamps the current instant instead of the sentinel
set_expired_to_now(access_token) == [access_token EXCEPT !.expires = now]

\* a forced expiry that also drops the owner of the token
set_expired_and_detach(access_token) ==
    [access_token EXCEPT !.expires = Epoch, !.application = 0]

\* RestrictedApplication.set_access_token_as_expired, lines 140-146
set_access_token_as_expired(access_token) ==
    [access_token EXCEPT !.expires = Epoch]

\* an expiry check that accepts any expiry that is not in the future
verify_expired_in_the_past(access_token) == access_token.expires <= now

\* RestrictedApplication.verify_access_token_as_expired, lines 148-154
verify_access_token_as_expired(access_token) == access_token.expires = Epoch

\* RestrictedApplication.allowed_scopes (getter), lines 102-107
allowed_scopes(self) == _get_list_from_delimited_string(self._allowed_scopes)

\* RestrictedApplication.allowed_scopes (setter), lines 109-114: the record
\* with its _allowed_scopes replaced
allowed_scopes_setter(self, value) ==
    [self EXCEPT !._allowed_scopes = Str(str_join(_DEFAULT_SEPARATOR, value))]

\* a scope check that also asks for the scope to be registered globally
has_registered_scope(self, scope) ==
    scope \in Range(allowed_scopes(self)) /\ scope \in all_scopes

\* RestrictedApplication.has_scope, lines 116-121
has_scope(self, scope) == scope \in Range(allowed_scopes(self))

\* RestrictedApplication.org_associations, lines 123-131: the name of the
\* one organization the record refers to
org_associations(self) == OrgName(self._org_associations)

\* RestrictedApplication.is_associated_with_org, lines 133-137
is_associated_with_org(self, org) == org = org_associations(self)

(***************************************************************************)
(* OauthRestrictedApplication, lines 157-208.                              *)
(***************************************************************************)
\* OauthRestrictedApplication.get_restricted_application, lines 185-190:
\* the QuerySet itself is returned, not a row of it
Oauth_get_restricted_application(table, application) ==
    PyQuerySet({r \in table : r.id = application})

\* OauthRestrictedApplication.is_token_oauth_restricted_application,
\* lines 171-183
is_token_oauth_restricted_application(table, tokens, objects, token) ==
    IF token.basestring /\ AccessToken_filter(tokens, token.token) = {}
    THEN Raised("DoesNotExist")
    ELSE LET token_obj == IF token.basestring
                          THEN tokens[token.token] ELSE objects[token.token]
         IN  Outcome(PyBool(is_not_None(
                 Oauth_get_restricted_application(table, token_obj.application))))

\* the declared scopes of the application, registered or not
Oauth_declared_scopes(self) ==
    Range(_get_list_from_delimited_string(Str(self.allowed_scope)))

\* effective scopes computed without consulting the scopes backend
Oauth_allowed_scopes_unfiltered(self) ==
    Range(_get_list_from_delimited_string(Str(self.allowed_scope)))

\* OauthRestrictedApplication.allowed_scopes, lines 192-199; the name
\* all_scopes is the registry as it stands when the property is read
Oauth_allowed_scopes(self) ==
    LET app_scopes == Range(_get_list_from_delimited_string(Str(self.allowed_scope)))
    IN  app_scopes \cap all_scopes

\* OauthRestrictedApplication.set_access_token_as_expired, lines 201-208
Oauth_set_access_token_as_expired(instance) ==
    [instance EXCEPT !.expires = Epoch]


(***************************************************************************)
(* OauthRestrictOrganization, lines 210-232.                               *)
(***************************************************************************)
\* lines 212-213
CONTENT_PROVIDER == "content_provider"
USER_PROVIDER == "user_provider"

\* self._org_associations.all(): the organizations of the binding, each
\* once, in an order the database chooses
ManyToMany_all(orgs) ==
    {q \in SeqsUpTo(orgs, Cardinality(orgs)) :
        Len(q) = Cardinality(orgs) /\ Range(q) = orgs}

\* a loop that starts its list afresh on every organization
org_associations_last_only(all) ==
    IF all = <<>> THEN <<>> ELSE <<OrgName(all[Len(all)])>>

\* OauthRestrictOrganization.org_associations, lines 224-232, given what
\* self._org_associations.all() yields
Oauth_org_associations(all) == [i \in 1..Len(all) |-> OrgName(all[i])]

(***************************************************************************)
(* Initial values shared by the specifications.                            *)
(***************************************************************************)
NoToken == [pc |-> "free", application |-> 0, expires |-> Epoch]
NoTokenRow == [saved |-> FALSE, application |-> 0, expires |-> Epoch]
\* what ret holds after an operation that returns nothing to look at
Idle == [op |-> "idle", arg |-> 0, kind |-> "return", val |-> PyNone]

\* a ScopedRestrictionRecord: the OauthRestrictedApplication row of an application
OauthRow(application, allowed_scope) ==
    [id |-> application, allowed_scope |-> allowed_scope]

\* the spec's isRestricted: a record of either kind exists for the application
HasRecord(application) ==
    \/ \E r \in restricted_applications : r.application = application
    \/ \E r \in oauth_applications : r.id = application

(***************************************************************************)
(* Administration of the restriction records (Django's ORM).               *)
(***************************************************************************)
\* RestrictedApplication.objects.create(application=..., _org_associations=...):
\* application is a OneToOneField (lines 29-33), so the table's unique
\* index refuses a second row for the same application
Designate(application, org) ==
    /\ next_row_id <= MaxRowId
    /\ IF \E r \in restricted_applications : r.application = application
       THEN /\ ret' = Result("create", application, Raised("IntegrityError"))
            /\ UNCHANGED <<restricted_applications, next_row_id>>
       ELSE /\ restricted_applications' = restricted_applications \cup
                    {[id |-> next_row_id, application |-> application,
                      _allowed_scopes |-> None, _org_associations |-> org]}
            /\ next_row_id' = next_row_id + 1
            /\ ret' = Idle
    /\ UNCHANGED <<oauth_applications, restrict_organizations, all_scopes,
                   access_tokens, instances, now, forced, for_restricted>>

\* RestrictedApplication.objects.filter(application=...).delete()
Revoke(application) ==
    /\ \E r \in restricted_applications : r.application = application
    /\ restricted_applications' =
           {r \in restricted_applications : r.application # application}
    /\ ret' = Idle
    /\ UNCHANGED <<next_row_id, oauth_applications, restrict_organizations,
                   all_scopes, access_tokens, instances, now, forced,
                   for_restricted>>

\* an OauthRestrictedApplication row is created for an application
OauthCreate(application) ==
    /\ \A r \in oauth_applications : r.id # application
    /\ oauth_applications' = oauth_applications \cup {OauthRow(application, <<>>)}
    /\ ret' = Idle
    /\ UNCHANGED <<restricted_applications, next_row_id, restrict_organizations,
                   all_scopes, access_tokens, instances, now, forced,
                   for_restricted>>

\* the OauthRestrictedApplication row of an application is deleted
OauthDelete(application) ==
    /\ \E r \in oauth_applications : r.id = application
    /\ oauth_applications' = {r \in oauth_applications : r.id # application}
    /\ ret' = Idle
    /\ UNCHANGED <<restricted_applications, next_row_id, restrict_organizations,
                   all_scopes, access_tokens, instances, now, forced,
                   for_restricted>>

(***************************************************************************)
(* The token-issuance path and the consumers of tokens.                    *)
(***************************************************************************)
\* the issuance path builds an AccessToken object for an application
Mint(token, application) ==
    /\ instances[token].pc = "free"
    /\ instances' = [instances EXCEPT ![token] =
           [pc |-> "minted", application |-> application,
            expires |-> now + TokenLifetime]]
    /\ for_restricted' = [for_restricted EXCEPT ![token] = HasRecord(application)]
    /\ ret' = Idle
    /\ UNCHANGED <<restricted_applications, next_row_id, oauth_applications,
                   restrict_organizations, all_scopes, access_tokens, now, forced>>

\* RestrictedApplication.set_access_token_as_expired(access_token) on a
\* token object: the object is changed, nothing is saved
ForceExpire(token) ==
    /\ instances[token].pc # "free"
    /\ instances' = [instances EXCEPT ![token] =
           set_access_token_as_expired(instances[token])]
    /\ forced' = forced \cup {token}
    /\ ret' = Result("set_access_token_as_expired", token, Outcome(PyNone))
    /\ UNCHANGED <<restricted_applications, next_row_id, oauth_applications,
                   restrict_organizations, all_scopes, access_tokens, now,
                   for_restricted>>

\* OauthRestrictedApplication.set_access_token_as_expired(instance)
OauthForceExpire(token) ==
    /\ instances[token].pc # "free"
    /\ instances' = [instances EXCEPT ![token] =
           Oauth_set_access_token_as_expired(instances[token])]
    /\ forced' = forced \cup {token}
    /\ ret' = Result("oauth_set_access_token_as_expired", token, Outcome(PyNone))
    /\ UNCHANGED <<restricted_applications, next_row_id, oauth_applications,
                   restrict_organizations, all_scopes, access_tokens, now,
                   for_restricted>>

\* the issuance path saves the token object; for a token minted for a
\* restricted application it has called set_access_token_as_expired first
Persist(token) ==
    /\ instances[token].pc = "minted"
    /\ for_restricted[token] => token \in forced
    /\ access_tokens' = [access_tokens EXCEPT ![token] =
           [saved |-> TRUE, application |-> instances[token].application,
            expires |-> instances[token].expires]]
    /\ instances' = [instances EXCEPT ![token].pc = "saved"]
    /\ ret' = Idle
    /\ UNCHANGED <<restricted_applications, next_row_id, oauth_applications,
                   restrict_organizations, all_scopes, now, forced,
                   for_restricted>>

\* a consumer loads a token by its string and looks at its expiry
Read(token) ==
    /\ access_tokens[token].saved
    /\ ret' = Result("read", token, Outcome(PyTime(access_tokens[token].expires)))
    /\ UNCHANGED <<store, now, forced, for_restricted>>

\* RestrictedApplication.verify_access_token_as_expired(access_token)
Verify(token) ==
    /\ instances[token].pc # "free"
    /\ ret' = Result("verify_access_token_as_expired", token,
                     Outcome(PyBool(verify_access_token_as_expired(instances[token]))))
    /\ UNCHANGED <<store, now, forced, for_restricted>>

\* time passes
Tick ==
    /\ now < MaxTime
    /\ now' = now + 1
    /\ ret' = Idle
    /\ UNCHANGED <<store, forced, for_restricted>>

(***************************************************************************)
(* The lookups of the engine.  A token is passed as its string, known to   *)
(* the AccessToken table or not, or as a token object.                     *)
(***************************************************************************)
TokenArgs ==
    {ByValue(k) : k \in TokenIds \cup {UnknownToken}} \cup
    {ByReference(k) : k \in {t \in TokenIds : instances[t].pc # "free"}}

\* RestrictedApplication.is_token_a_restricted_application(token)
IsTokenRestricted(token) ==
    /\ ret' = Result("is_token_a_restricted_application", token,
                     is_token_a_restricted_application(
                         restricted_applications, access_tokens, instances, token))
    /\ UNCHANGED <<store, now, forced, for_restricted>>

\* OauthRestrictedApplication.is_token_oauth_restricted_application(token)
IsTokenOauthRestricted(token) ==
    /\ ret' = Result("is_token_oauth_restricted_application", token,
                     is_token_oauth_restricted_application(
                         oauth_applications, access_tokens, instances, token))
    /\ UNCHANGED <<store, now, forced, for_restricted>>

\* RestrictedApplication.get_restricted_application_from_token(token)
GetRestrictedApplicationFromToken(token) ==
    /\ ret' = Result("get_restricted_application_from_token", token,
                     get_restricted_application_from_token(
                         restricted_applications, access_tokens, instances, token))
    /\ UNCHANGED <<store, now, forced, for_restricted>>

\* RestrictedApplication.get_restricted_application(application)
GetRestrictedApplication(application) ==
    /\ ret' = Result("get_restricted_application", application,
                     Outcome(RestrictedApplication_get_restricted_application(
                                 restricted_applications, application)))
    /\ UNCHANGED <<store, now, forced, for_restricted>>

(***************************************************************************)
(* Spec: issuance, forced expiry, persistence and reads of tokens, while   *)
(* applications are designated as restricted and revoked.  Application 2   *)
(* has an OauthRestrictedApplication row throughout; the clock starts      *)
(* after the epoch.                                                        *)
(***************************************************************************)
Init ==
    /\ restricted_applications = {}
    /\ next_row_id = 1
    /\ oauth_applications = {OauthRow(2, <<>>)}
    /\ restrict_organizations = {}
    /\ all_scopes = {}
    /\ access_tokens = [k \in TokenIds |-> NoTokenRow]
    /\ instances = [k \in TokenIds |-> NoToken]
    /\ now = 1
    /\ forced = {}
    /\ for_restricted = [k \in TokenIds |-> FALSE]
    /\ ret = Idle

Next ==
    \/ \E a \in Apps : Designate(a, 1)
    \/ \E a \in Apps : Revoke(a)
    \/ \E k \in TokenIds, a \in Apps : Mint(k, a)
    \/ \E k \in TokenIds : ForceExpire(k)
    \/ \E k \in TokenIds : OauthForceExpire(k)
    \/ \E k \in TokenIds : Persist(k)
    \/ \E k \in TokenIds : Read(k)
    \/ \E k \in TokenIds : Verify(k)
    \/ Tick

Spec == Init /\ [][Next]_vars

(***************************************************************************)
(* SpecRestrict: restriction records of both kinds are created and         *)
(* deleted while the lookups are called on tokens that were issued         *)
(* earlier, each for either application, and on an unknown token string.   *)
(***************************************************************************)
InitRestrict ==
    /\ restricted_applications = {}
    /\ next_row_id = 1
    /\ oauth_applications = {}
    /\ restrict_organizations = {}
    /\ all_scopes = {}
    /\ \E owner \in [TokenIds -> Apps] :
          /\ access_tokens = [k \in TokenIds |->
                 [saved |-> TRUE, application |-> owner[k],
                  expires |-> 1 + TokenLifetime]]
          /\ instances = [k \in TokenIds |->
                 [pc |-> "saved", application |-> owner[k],
                  expires |-> 1 + TokenLifetime]]
    /\ now = 1
    /\ forced = {}
    /\ for_restricted = [k \in TokenIds |-> FALSE]
    /\ ret = Idle

NextRestrict ==
    \/ \E a \in Apps, o \in OrgIds : Designate(a, o)
    \/ \E a \in Apps : Revoke(a)
    \/ \E a \in Apps : OauthCreate(a)
    \/ \E a \in Apps : OauthDelete(a)
    \/ \E t \in TokenArgs : IsTokenRestricted(t)
    \/ \E t \in TokenArgs : IsTokenOauthRestricted(t)
    \/ \E t \in TokenArgs : GetRestrictedApplicationFromToken(t)
    \/ \E a \in Apps : GetRestrictedApplication(a)

SpecRestrict == InitRestrict /\ [][NextRestrict]_vars


(***************************************************************************)
(* Scopes: the registry of the scopes backend, and the scope fields of     *)
(* the two kinds of record.                                                *)
(***************************************************************************)
\* the scope names that may be handed to the engine: the empty name, names
\* of one and of two characters, and a name holding the separator
Names == {<<>>, <<"r">>, <<"w">>, <<"r", "w">>, <<_DEFAULT_SEPARATOR>>}
\* the lists of scope names that may be assigned to allowed_scopes
ScopeLists == SeqsUpTo(Names, MaxScopes)
\* the scope names the scopes backend may know
ScopePool == {<<"r">>, <<"w">>}
\* the texts an administrator may store in allowed_scope
ScopeTexts == SeqsUpTo(Chars, MaxTextLen)

\* a scope is added to the scopes backend
RegisterScope(scope) ==
    /\ scope \notin all_scopes
    /\ all_scopes' = all_scopes \cup {scope}
    /\ ret' = Idle
    /\ UNCHANGED <<restricted_applications, next_row_id, oauth_applications,
                   restrict_organizations, access_tokens, instances, now,
                   forced, for_restricted>>

\* a scope is removed from the scopes backend
DeregisterScope(scope) ==
    /\ scope \in all_scopes
    /\ all_scopes' = all_scopes \ {scope}
    /\ ret' = Idle
    /\ UNCHANGED <<restricted_applications, next_row_id, oauth_applications,
                   restrict_organizations, access_tokens, instances, now,
                   forced, for_restricted>>

\* record.allowed_scopes = value  on the RestrictedApplication of an application
SetAllowedScopes(application, value) ==
    /\ \E self \in restricted_applications :
          /\ self.application = application
          /\ restricted_applications' =
                 (restricted_applications \ {self}) \cup
                     {allowed_scopes_setter(self, value)}
    /\ ret' = Result("allowed_scopes.setter", application, Outcome(PyList(value)))
    /\ UNCHANGED <<next_row_id, oauth_applications, restrict_organizations,
                   all_scopes, access_tokens, instances, now, forced,
                   for_restricted>>

\* record.allowed_scopes  on the RestrictedApplication of an application
GetAllowedScopes(application) ==
    /\ \E self \in restricted_applications :
          /\ self.application = application
          /\ ret' = Result("allowed_scopes", application,
                           Outcome(PyList(allowed_scopes(self))))
    /\ UNCHANGED <<store, now, forced, for_restricted>>

\* record.has_scope(scope)  on the RestrictedApplication of an application
HasScope(application, scope) ==
    /\ \E self \in restricted_applications :
          /\ self.application = application
          /\ ret' = Result("has_scope", [application |-> application, scope |-> scope],
                           Outcome(PyBool(has_scope(self, scope))))
    /\ UNCHANGED <<store, now, forced, for_restricted>>

\* an administrator edits allowed_scope of an OauthRestrictedApplication
EditAllowedScope(application, text) ==
    /\ \E self \in oauth_applications :
          /\ self.id = application
          /\ self.allowed_scope # text
          /\ oauth_applications' =
                 (oauth_applications \ {self}) \cup {OauthRow(application, text)}
    /\ ret' = Idle
    /\ UNCHANGED <<restricted_applications, next_row_id, restrict_organizations,
                   all_scopes, access_tokens, instances, now, forced,
                   for_restricted>>

\* application.allowed_scopes  on an OauthRestrictedApplication
OauthAllowedScopes(application) ==
    /\ \E self \in oauth_applications :
          /\ self.id = application
          /\ ret' = Result("oauth_allowed_scopes", application,
                           Outcome(PySet(Oauth_allowed_scopes(self))))
    /\ UNCHANGED <<store, now, forced, for_restricted>>

(***************************************************************************)
(* SpecScopes: the allowed scopes of one RestrictedApplication are set,    *)
(* read and tested while scopes come and go in the scopes backend.         *)
(***************************************************************************)
InitScopes ==
    /\ restricted_applications =
           {[id |-> 1, application |-> 1, _allowed_scopes |-> None,
             _org_associations |-> 1]}
    /\ next_row_id = 2
    /\ oauth_applications = {}
    /\ restrict_organizations = {}
    /\ all_scopes = {}
    /\ access_tokens = [k \in TokenIds |-> NoTokenRow]
    /\ instances = [k \in TokenIds |-> NoToken]
    /\ now = 1
    /\ forced = {}
    /\ for_restricted = [k \in TokenIds |-> FALSE]
    /\ ret = Idle

NextScopes ==
    \/ \E value \in ScopeLists : SetAllowedScopes(1, value)
    \/ GetAllowedScopes(1)
    \/ \E scope \in Names : HasScope(1, scope)
    \/ \E scope \in ScopePool : RegisterScope(scope)
    \/ \E scope \in ScopePool : DeregisterScope(scope)

SpecScopes == InitScopes /\ [][NextScopes]_vars

(***************************************************************************)
(* SpecOauth: allowed_scope of one OauthRestrictedApplication is edited    *)
(* and its effective scopes are read while scopes come and go in the       *)
(* scopes backend.                                                         *)
(***************************************************************************)
InitOauth ==
    /\ restricted_applications = {}
    /\ next_row_id = 1
    /\ oauth_applications = {OauthRow(2, <<>>)}
    /\ restrict_organizations = {}
    /\ all_scopes = ScopePool
    /\ access_tokens = [k \in TokenIds |-> NoTokenRow]
    /\ instances = [k \in TokenIds |-> NoToken]
    /\ now = 1
    /\ forced = {}
    /\ for_restricted = [k \in TokenIds |-> FALSE]
    /\ ret = Idle

NextOauth ==
    \/ \E text \in ScopeTexts : EditAllowedScope(2, text)
    \/ OauthAllowedScopes(2)
    \/ \E scope \in ScopePool : RegisterScope(scope)
    \/ \E scope \in ScopePool : DeregisterScope(scope)

SpecOauth == InitOauth /\ [][NextOauth]_vars

(***************************************************************************)
(* Organizations: the single organization of a RestrictedApplication and   *)
(* the role-tagged bindings of OauthRestrictOrganization.                  *)
(***************************************************************************)
\* the names a caller may ask about
OrgNames == {"Acme", "Umbrella", "Initech"}

\* record.org_associations  on the RestrictedApplication of an application
OrgAssociations(application) ==
    /\ \E self \in restricted_applications :
          /\ self.application = application
          /\ ret' = Result("org_associations", application,
                           Outcome(PyStr(org_associations(self))))
    /\ UNCHANGED <<store, now, forced, for_restricted>>

\* record.is_associated_with_org(org)
IsAssociatedWithOrg(application, org) ==
    /\ \E self \in restricted_applications :
          /\ self.application = application
          /\ ret' = Result("is_associated_with_org",
                           [application |-> application, org |-> org],
                           Outcome(PyBool(is_associated_with_org(self, org))))
    /\ UNCHANGED <<store, now, forced, for_restricted>>

\* OauthRestrictOrganization.objects.create(application=..., organization_type=...)
AddBinding(application, organization_type) ==
    /\ Cardinality(restrict_organizations) < MaxBindings
    /\ restrict_organizations' = restrict_organizations \cup
           {[id |-> Cardinality(restrict_organizations) + 1,
             application |-> application,
             organization_type |-> organization_type,
             _org_associations |-> {}]}
    /\ ret' = Idle
    /\ UNCHANGED <<restricted_applications, next_row_id, oauth_applications,
                   all_scopes, access_tokens, instances, now, forced,
                   for_restricted>>

\* binding._org_associations.add(org)
BindOrg(id, org) ==
    /\ \E self \in restrict_organizations :
          /\ self.id = id
          /\ org \notin self._org_associations
          /\ restrict_organizations' = (restrict_organizations \ {self}) \cup
                 {[self EXCEPT !._org_associations = @ \cup {org}]}
    /\ ret' = Idle
    /\ UNCHANGED <<restricted_applications, next_row_id, oauth_applications,
                   all_scopes, access_tokens, instances, now, forced,
                   for_restricted>>

\* binding._org_associations.remove(org)
UnbindOrg(id, org) ==
    /\ \E self \in restrict_organizations :
          /\ self.id = id
          /\ org \in self._org_associations
          /\ restrict_organizations' = (restrict_organizations \ {self}) \cup
                 {[self EXCEPT !._org_associations = @ \ {org}]}
    /\ ret' = Idle
    /\ UNCHANGED <<restricted_applications, next_row_id, oauth_applications,
                   all_scopes, access_tokens, instances, now, forced,
                   for_restricted>>

\* binding.org_associations  on an OauthRestrictOrganization
BindingOrgAssociations(id) ==
    /\ \E self \in restrict_organizations :
          /\ self.id = id
          /\ \E all \in ManyToMany_all(self._org_associations) :
                ret' = Result("oauth_org_associations", id,
                              Outcome(PyList(Oauth_org_associations(all))))
    /\ UNCHANGED <<store, now, forced, for_restricted>>

(***************************************************************************)
(* SpecOrgs: bindings are created for either application under either      *)
(* role, organizations are bound and unbound, and org_associations is      *)
(* read.                                                                   *)
(***************************************************************************)
InitOrgs ==
    /\ restricted_applications = {}
    /\ next_row_id = 1
    /\ oauth_applications = {}
    /\ restrict_organizations = {}
    /\ all_scopes = {}
    /\ access_tokens = [k \in TokenIds |-> NoTokenRow]
    /\ instances = [k \in TokenIds |-> NoToken]
    /\ now = 1
    /\ forced = {}
    /\ for_restricted = [k \in TokenIds |-> FALSE]
    /\ ret = Idle

NextOrgs ==
    \/ \E a \in Apps, role \in {CONTENT_PROVIDER, USER_PROVIDER} : AddBinding(a, role)
    \/ \E id \in 1..MaxBindings, org \in OrgIds : BindOrg(id, org)
    \/ \E id \in 1..MaxBindings, org \in OrgIds : UnbindOrg(id, org)
    \/ \E id \in 1..MaxBindings : BindingOrgAssociations(id)

SpecOrgs == InitOrgs /\ [][NextOrgs]_vars

(***************************************************************************)
(* SpecLookup: the lookups of RestrictedApplication as functions of the    *)
(* table they query.  The table is any set of rows with distinct primary   *)
(* keys, those holding several rows for one application included: the      *)
(* lookup filters by application and does not rely on the unique index.    *)
(***************************************************************************)
RestrictedRows ==
    [id : 1..MaxRowId, application : Apps, _allowed_scopes : {None},
     _org_associations : {1}]

InitLookup ==
    /\ restricted_applications \in
           {table \in SUBSET RestrictedRows :
               \A r, q \in table : r.id = q.id => r = q}
    /\ next_row_id = MaxRowId + 1
    /\ oauth_applications = {}
    /\ restrict_organizations = {}
    /\ all_scopes = {}
    /\ \E owner \in [TokenIds -> Apps] :
          /\ access_tokens = [k \in TokenIds |->
                 [saved |-> TRUE, application |-> owner[k],
                  expires |-> 1 + TokenLifetime]]
          /\ instances = [k \in TokenIds |->
                 [pc |-> "saved", application |-> owner[k],
                  expires |-> 1 + TokenLifetime]]
    /\ now = 1
    /\ forced = {}
    /\ for_restricted = [k \in TokenIds |-> FALSE]
    /\ ret = Idle

NextLookup ==
    \/ \E a \in Apps : GetRestrictedApplication(a)
    \/ \E t \in TokenArgs : IsTokenRestricted(t)
    \/ \E t \in TokenArgs : GetRestrictedApplicationFromToken(t)

SpecLookup == InitLookup /\ [][NextLookup]_vars

(***************************************************************************)
(* SpecFrame: every operation of the engine, on a store holding a          *)
(* RestrictedApplication for application 1 (scopes r and w, organization   *)
(* Acme), an OauthRestrictedApplication for application 2 (scopes r and    *)
(* rw declared, r and w registered), one binding, and two saved tokens.    *)
(***************************************************************************)
InitFrame ==
    /\ restricted_applications =
           {[id |-> 1, application |-> 1,
             _allowed_scopes |-> Str(<<"r", _DEFAULT_SEPARATOR, "w">>),
             _org_associations |-> 1]}
    /\ next_row_id = 2
    /\ oauth_applications =
           {OauthRow(2, <<"r", _DEFAULT_SEPARATOR, "r", "w">>)}
    /\ restrict_organizations =
           {[id |-> 1, application |-> 2, organization_type |-> CONTENT_PROVIDER,
             _org_associations |-> OrgIds]}
    /\ all_scopes = ScopePool
    /\ \E owner \in [TokenIds -> Apps] :
          /\ access_tokens = [k \in TokenIds |->
                 [saved |-> TRUE, application |-> owner[k],
                  expires |-> 1 + TokenLifetime]]
          /\ instances = [k \in TokenIds |->
                 [pc |-> "saved", application |-> owner[k],
                  expires |-> 1 + TokenLifetime]]
    /\ now = 1
    /\ forced = {}
    /\ for_restricted = [k \in TokenIds |-> FALSE]
    /\ ret = Idle

NextFrame ==
    \/ \E k \in TokenIds : ForceExpire(k)
    \/ \E k \in TokenIds : OauthForceExpire(k)
    \/ \E k \in TokenIds : Verify(k)
    \/ \E t \in TokenArgs : IsTokenRestricted(t)
    \/ \E t \in TokenArgs : IsTokenOauthRestricted(t)
    \/ \E t \in TokenArgs : GetRestrictedApplicationFromToken(t)
    \/ \E a \in Apps : GetRestrictedApplication(a)
    \/ \E scope \in Names : HasScope(1, scope)
    \/ GetAllowedScopes(1)
    \/ OauthAllowedScopes(2)
    \/ OrgAssociations(1)
    \/ \E org \in OrgNames : IsAssociatedWithOrg(1, org)
    \/ BindingOrgAssociations(1)

SpecFrame == InitFrame /\ [][NextFrame]_vars

(***************************************************************************)
(* Properties of the token path (Spec).                                    *)
(***************************************************************************)
\* the application a token argument belongs to
TokenOwner(token) ==
    IF token.basestring THEN access_tokens[token.token].application
    ELSE instances[token.token].application

C3_ForcedIffSentinel ==
    /\ \A k \in TokenIds :
          instances[k].pc # "free"
              => (verify_access_token_as_expired(instances[k]) <=> k \in forced)
    /\ \A k \in TokenIds :
          (access_tokens[k].saved /\ verify_access_token_as_expired(access_tokens[k]))
              => k \in forced
    /\ ret.op = "verify_access_token_as_expired"
          => (ret.val.v <=> ret.arg \in forced)

\* one token was forced and verifies as expired; the other was never forced,
\* its expiry has lapsed, and the check has just answered false for it
C3_Witness ==
    /\ ret.op = "verify_access_token_as_expired"
    /\ ret.val.v = FALSE
    /\ ret.arg \notin forced
    /\ instances[ret.arg].expires < now
    /\ \E k \in forced : verify_access_token_as_expired(instances[k])

(***************************************************************************)
(* Properties of the lookups (SpecRestrict).                               *)
(***************************************************************************)
\* C2: a restriction check on a token answers false exactly when the owning
\* application has neither a RestrictedApplication row nor an
\* OauthRestrictedApplication row.
C2_RestrictedIffRecord ==
    (/\ ret.op \in {"is_token_a_restricted_application",
                    "is_token_oauth_restricted_application"}
     /\ ret.kind = "return")
        => (ret.val.v = FALSE <=> ~HasRecord(TokenOwner(ret.arg)))

\* C6: a lookup given a token string that no AccessToken carries raises the
\* ORM's DoesNotExist (NotFound).
C6_UnknownTokenIsNotFound ==
    (/\ ret.op \in {"is_token_a_restricted_application",
                    "is_token_oauth_restricted_application",
                    "get_restricted_application_from_token"}
     /\ ret.arg.basestring
     /\ AccessToken_filter(access_tokens, ret.arg.token) = {})
        => ret.kind = "DoesNotExist"


(***************************************************************************)
(* Properties of the scope fields (SpecScopes, SpecOauth).                 *)
(***************************************************************************)
\* the scope names of a list hold no separator
InContract(list) ==
    \A i \in 1..Len(list) : \A j \in 1..Len(list[i]) : list[i][j] # _DEFAULT_SEPARATOR

\* the RestrictedApplication of application 1
Record1 == CHOOSE self \in restricted_applications : self.application = 1

\* C4: the effective scopes of an OauthRestrictedApplication are, at every
\* reading, within its declared scopes and within the scopes the backend
\* knows at that moment, whatever was registered, deregistered or edited
\* before.
C4_EffectiveWithinDeclaredAndRegistered ==
    /\ \A self \in oauth_applications :
          Oauth_allowed_scopes(self) \subseteq
              (Oauth_declared_scopes(self) \cap all_scopes)
    /\ ret.op = "oauth_allowed_scopes" =>
          \A self \in oauth_applications :
              self.id = ret.arg =>
                  ret.val.v \subseteq (Oauth_declared_scopes(self) \cap all_scopes)

\* the effective scopes were read, non-empty, for an application that
\* declares a scope the backend no longer knows
C4_Witness ==
    /\ ret.op = "oauth_allowed_scopes"
    /\ ret.val.v # {}
    /\ all_scopes # ScopePool
    /\ \E self \in oauth_applications :
          /\ self.id = ret.arg
          /\ \E scope \in ScopePool :
                scope \in Oauth_declared_scopes(self) /\ scope \notin all_scopes

\* C5 as stated: after allowed_scopes is assigned a list of names that hold
\* no separator, reading allowed_scopes gives that list back.
C5_RoundTrip ==
    (ret.op = "allowed_scopes.setter" /\ InContract(ret.val.v))
        => /\ allowed_scopes(Record1) = ret.val.v
           /\ _get_list_from_delimited_string(
                  Str(_get_delemitered_string_from_list(ret.val.v))) = ret.val.v

\* C5 as amended: the list read back is the list assigned unless that list is
\* the one-element list holding the empty name, which reads back as the
\* empty list.
C5_RoundTripButSingleEmpty ==
    (ret.op = "allowed_scopes.setter" /\ InContract(ret.val.v))
        => LET expected == IF ret.val.v = << <<>> >> THEN <<>> ELSE ret.val.v
           IN  /\ allowed_scopes(Record1) = expected
               /\ _get_list_from_delimited_string(
                      Str(_get_delemitered_string_from_list(ret.val.v))) = expected

\* a list of two names, one of them empty, was assigned and reads back
C5_Witness ==
    /\ ret.op = "allowed_scopes.setter"
    /\ InContract(ret.val.v)
    /\ Len(ret.val.v) = 2
    /\ <<>> \in Range(ret.val.v)
    /\ ret.val.v[2] # <<>>
    /\ allowed_scopes(Record1) = ret.val.v

\* C7: has_scope of a RestrictedApplication is membership in the decoded
\* _allowed_scopes and nothing else: it is the same whether or not the
\* scope is registered in the scopes backend.
C7_HasScopeIsVerbatimMembership ==
    /\ \A scope \in Names :
          has_scope(Record1, scope) <=>
              \E i \in 1..Len(allowed_scopes(Record1)) :
                  allowed_scopes(Record1)[i] = scope
    /\ ret.op = "has_scope" =>
          (ret.val.v <=> \E i \in 1..Len(allowed_scopes(Record1)) :
                             allowed_scopes(Record1)[i] = ret.arg.scope)

\* with r and w allowed and nothing registered, has_scope has just answered
\* true for r
C7_Witness ==
    /\ ret.op = "has_scope"
    /\ ret.arg.scope = <<"r">>
    /\ ret.val.v = TRUE
    /\ allowed_scopes(Record1) = << <<"r">>, <<"w">> >>
    /\ all_scopes = {}


(***************************************************************************)
(* Properties of the organization bindings (SpecOrgs).                     *)
(***************************************************************************)
\* the binding with the given primary key
Binding(id) == CHOOSE self \in restrict_organizations : self.id = id

\* the elements of a list are pairwise different
NoDuplicates(list) ==
    \A i, j \in 1..Len(list) : list[i] = list[j] => i = j

C9_AtMostOneRecord ==
    \A r, q \in restricted_applications : r.application = q.application => r = q

C10_Frame ==
    [][IF ret'.op \in {"set_access_token_as_expired",
                       "oauth_set_access_token_as_expired"}
       THEN /\ instances' = [instances EXCEPT ![ret'.arg].expires = Epoch]
            /\ set_access_token_as_expired(instances'[ret'.arg]) =
                   instances'[ret'.arg]
            /\ UNCHANGED <<restricted_applications, next_row_id,
                           oauth_applications, restrict_organizations,
                           all_scopes, access_tokens>>
       ELSE UNCHANGED store]_vars

\* set_access_token_as_expired has just been applied to one token: its
\* owner is kept, its saved row and the other token still carry their
\* nominal expiry
C10_Witness ==
    /\ ret.op = "set_access_token_as_expired"
    /\ instances[ret.arg].expires = Epoch
    /\ instances[ret.arg].application \in Apps
    /\ access_tokens[ret.arg].expires # Epoch
    /\ \E k \in TokenIds : k # ret.arg /\ instances[k].expires # Epoch

=============================================================================
